---- MODULE Spec2Model ----
(***************************************************************************)
(* fing: an infinite freehand sketchpad (src/src/index.tsx).               *)
(*                                                                         *)
(* The source file holds two variants of the same page: the lasso-erase    *)
(* variant (lines 1-613) and the hold-erase variant (lines 615-1213).      *)
(* `variant` selects which of the two programs runs.                       *)
(*                                                                         *)
(* React state.  A handler of the source reads `paths` and `pointerID`     *)
(* from the closure of the render that created it, and changes the state   *)
(* through dispatchPaths / dispatchPointerID, which queue an update that   *)
(* the next render applies.  The model keeps both:                         *)
(*   paths, pointerID            the values bound by the current render    *)
(*                               (what the handlers and the DOM see);      *)
(*   statePaths, statePointerID  the hook state with every queued update   *)
(*                               applied in dispatch order (what an        *)
(*                               updater function receives as prevPaths).  *)
(* Updates dispatched by a discrete event (pointerdown, pointerup,         *)
(* pointercancel) are rendered before the next event is dispatched, so     *)
(* those handlers end with the render.  Updates dispatched by pointermove  *)
(* or by a setTimeout callback are rendered by a later task: the action    *)
(* Render.                                                                 *)
(*                                                                         *)
(* Specifications.  Spec is the drawing engine: pointer events, renders,    *)
(* hold timers and edge growth.  SpecStore adds what reaches localStorage:  *)
(* the debounced save, a reload of the page and the clear button.  The      *)
(* other specifications run one part of the program over a bounded set of   *)
(* inputs.                                                                  *)
(*                                                                         *)
(* JavaScript array indices are kept 0-based where the source stores them  *)
(* (the index a hold timer captured); sequences are 1-based.               *)
(***************************************************************************)
EXTENDS Integers, Sequences, FiniteSets, TLC

\* ---------------------------------------------------------------- bounds
\* Date.now() - mountedTime may reach MaxTime: bounds the accepted pointer events.
MaxTime == 3
\* window.setTimeout is called at most MaxTimeouts times by the edge observers
\* and the Path components together.
MaxTimeouts == 1
\* The clear button is clicked at most MaxClears times.
MaxClears == 1

\* --------------------------------------------------------- program constants
viewportZoom == 10
gridSizeLasso == 32 * viewportZoom
tileSizeLasso == 4 * gridSizeLasso
gridSizeHold == 32
tileSizeHold == 4 * gridSizeHold
\* The value of a state hook that holds no number, and of -Infinity in a
\* Math.max reduction over counts that are never negative.
undefined == -1
NegInfinity == -1
\* Infinity, the initial value of a reduce with Math.min: above every coordinate
Infinity == 1000000
\* The polyline length below which the export of the lasso variant drops a stroke
NoiseThreshold == 8

VARIABLES
  variant,          \* "lasso" or "hold": which of the two pages runs
  now,              \* Date.now() - mountedTime
  paths,            \* Page: paths, as bound by the current render
  pointerID,        \* Page: pointerID, as bound by the current render
  statePaths,       \* the paths hook state, queued updates applied
  statePointerID,   \* the pointerID hook state, queued updates applied
  canvasWidth,      \* the canvasWidth hook state
  canvasHeight,     \* the canvasHeight hook state
  scroll,           \* the window's scroll position [x, y]
  growTimers,       \* pending edge-growth timeouts, per edge
  timeoutID,        \* hold variant: timeoutID state of the Path of each key
  holdTimers,       \* hold variant: pending hold timeouts [id, index, by, path]
  nextTimeoutID,    \* hold variant: the id the next window.setTimeout of a Path returns
  intersectedCounts,\* lasso variant: intersectedCount per existing path, last pointer-up
  crashed,          \* an updater threw: the root is unmounted
  acceptedDowns,    \* history: pointer-downs accepted since the last pointer-up/cancel event
  storage,          \* localStorage: the keys present and their strings
  saveTimer,        \* the pending timeout of the paths effect: << >> or <<paths to write>>
  mountedTime,      \* the mountedTime hook state (Date.now() is mountedTime + now)
  pageKey,          \* App: the pageKey of the last render, as a number of clears
  statePageKey,     \* App: the state of the pageKey hook, as a number of clears
  staleTimers,      \* pending edge-growth timeouts of Pages unmounted by a clear, per edge
  timeoutBudget,    \* the window.setTimeout calls a behaviour may contain
  share,            \* the export started by the share button: its position and products
  momentum          \* the refs of the scroll tick: velocityXRef, velocityDecimalXRef, sensitivityRef

vars == <<variant, now, paths, pointerID, statePaths, statePointerID, canvasWidth,
          canvasHeight, scroll, growTimers, timeoutID, holdTimers, nextTimeoutID,
          intersectedCounts, crashed, acceptedDowns, storage, saveTimer, mountedTime,
          pageKey, statePageKey, staleTimers, timeoutBudget, share, momentum>>

\* The variables of the clear button, of the budget, of the export and of the
\* scroll tick.
sessionVars == <<mountedTime, pageKey, statePageKey, staleTimers, timeoutBudget, share,
                 momentum>>

\* ------------------------------------------------------------ JS helpers
Min(a, b) == IF a < b THEN a ELSE b
Max(a, b) == IF a > b THEN a ELSE b

\* Math.ceil(a / b) for a >= 0, b > 0
CeilDiv(a, b) == (a + b - 1) \div b

\* Array.prototype.slice(b, e)
Slice(s, b, e) ==
  LET n == Len(s)
      from == IF b < 0 THEN Max(n + b, 0) ELSE Min(b, n)
      to == IF e < 0 THEN Max(n + e, 0) ELSE Min(e, n)
  IN SubSeq(s, from + 1, to)

Point(x, y, t, p) == [x |-> x, y |-> y, t |-> t, p |-> p]

tileSize == IF variant = "lasso" THEN tileSizeLasso ELSE tileSizeHold

Edges == {"top", "bottom", "left", "right"}

\* ------------------------------------------------------------ localStorage
\* String(n) of a non-negative integer: its decimal digits
RECURSIVE String(_)
String(n) == IF n < 10 THEN <<n>> ELSE Append(String(n \div 10), n % 10)

\* Number(s) of a string of decimal digits
RECURSIVE Number(_)
Number(s) == IF Len(s) = 0 THEN 0 ELSE 10 * Number(SubSeq(s, 1, Len(s) - 1)) + s[Len(s)]

\* A JSON text is the sequence of its tokens: a bracket, a brace, the name of a
\* key, or a number (the commas and colons between them are left out).
Token(c) == [c |-> c, n |-> 0]
NumberToken(n) == [c |-> "#", n |-> n]

\* JSON.stringify of a point: its keys in the order x, y, t, p of the object literal
StringifyPoint(point) ==
  <<Token("{"), Token("x"), NumberToken(point.x), Token("y"), NumberToken(point.y),
    Token("t"), NumberToken(point.t), Token("p"), NumberToken(point.p), Token("}")>>

RECURSIVE StringifyPoints(_, _)
StringifyPoints(path, i) ==
  IF i > Len(path) THEN << >> ELSE StringifyPoint(path[i]) \o StringifyPoints(path, i + 1)

StringifyPath(path) == <<Token("[")>> \o StringifyPoints(path, 1) \o <<Token("]")>>

RECURSIVE StringifyPaths(_, _)
StringifyPaths(ps, i) ==
  IF i > Len(ps) THEN << >> ELSE StringifyPath(ps[i]) \o StringifyPaths(ps, i + 1)

\* JSON.stringify(paths)
JSONstringify(ps) == <<Token("[")>> \o StringifyPaths(ps, 1) \o <<Token("]")>>

\* JSON.parse of the object whose "{" is token i: the number after each key, by name
ParsePoint(text, i) ==
  LET value(k) == text[(CHOOSE j \in {i + 1, i + 3, i + 5, i + 7} : text[j].c = k) + 1].n
  IN Point(value("x"), value("y"), value("t"), value("p"))

\* JSON.parse of the elements of an array of objects from token i to its "]":
\* the array and the index of the token after the "]"
RECURSIVE ParsePoints(_, _, _)
ParsePoints(text, i, acc) ==
  IF text[i].c = "]" THEN [value |-> acc, next |-> i + 1]
  ELSE ParsePoints(text, i + 10, Append(acc, ParsePoint(text, i)))

\* JSON.parse of the elements of an array of arrays from token i to its "]"
RECURSIVE ParsePaths(_, _, _)
ParsePaths(text, i, acc) ==
  IF text[i].c = "]" THEN acc
  ELSE LET path == ParsePoints(text, i + 1, << >>)
       IN ParsePaths(text, path.next, Append(acc, path.value))

\* JSON.parse(savedPathsString)
JSONparse(text) == ParsePaths(text, 2, << >>)

\* localStorage.getItem(key) is null
Missing(key) == key \notin DOMAIN storage

\* localStorage.removeItem of the drawing only
RemoveDrawingOnly(store, keys) == [key \in DOMAIN store \ {"paths"} |-> store[key]]

\* localStorage.setItem(key, value) and removeItem of a set of keys, on a store
SetItem(store, key, value) ==
  [k \in DOMAIN store \cup {key} |-> IF k = key THEN value ELSE store[k]]
RemoveItems(store, keys) == [k \in DOMAIN store \ keys |-> store[k]]

\* ------------------------------------------------------ inputs of the model
PointerIDs == {1, 2}

\* innerWidth, innerHeight of the window at mount
innerWidth == 100
innerHeight == 200

\* A zigzag stroke of n segments between y = 0 and y = 4, starting at x = x0.
Zigzag(n, x0) ==
  [i \in 1..(n + 1) |-> Point(x0 + i - 1, IF i % 2 = 1 THEN 0 ELSE 4, 0, 1)]

Dot(x, y) == <<Point(x, y, 0, 1), Point(x, y, 0, 1)>>

\* Drawings a former session of the lasso variant saved under "paths".
SavedPathsLasso ==
  { << >>,
    <<Zigzag(5, 0), Zigzag(5, 3)>>,
    <<Zigzag(8, 0), Dot(8, 2), Dot(0, 2), Dot(4, 3), Dot(4, 1)>> }

\* Drawings a former session of the hold variant saved under "paths".
SavedPathsHold ==
  { << >>,
    <<Dot(1, 1)>>,
    <<Dot(1, 1), Dot(2, 2)>> }

\* offsetX, offsetY and pressure of the pointer event delivered at time `now`: the
\* pointer follows a route over the canvas
LassoRoute == <<<<0, 1, 1>>, <<8, 1, 0>>, <<0, 3, 1>>>>
HoldRoute == <<<<5, 5, 1>>, <<6, 7, 0>>>>

PointerInputs ==
  IF variant = "lasso"
    THEN {LassoRoute[(now % Len(LassoRoute)) + 1]}
    ELSE {HoldRoute[(now % Len(HoldRoute)) + 1]}

\* --------------------------------------------------- momentum scroll: numbers
\* The refs of the scroll tick hold doubles. The model computes with exact
\* fractions [n, d] in lowest terms, d > 0: the rounding of a double (relative
\* error below 2^-53 per operation) is not modelled.
Abs(a) == IF a < 0 THEN -a ELSE a

RECURSIVE GCD(_, _)
GCD(a, b) == IF b = 0 THEN a ELSE GCD(b, a % b)

Rat(n, d) == LET g == GCD(Abs(n), d) IN [n |-> n \div g, d |-> d \div g]

RatAdd(a, b) ==
  LET l == (a.d \div GCD(a.d, b.d)) * b.d
  IN Rat(a.n * (l \div a.d) + b.n * (l \div b.d), l)

RatNeg(a) == [n |-> -a.n, d |-> a.d]

RatMul(a, b) ==
  LET g1 == GCD(Abs(a.n), b.d)
      g2 == GCD(Abs(b.n), a.d)
  IN Rat((a.n \div g1) * (b.n \div g2), (a.d \div g2) * (b.d \div g1))

\* a / b for b > 0
RatDiv(a, b) == RatMul(a, [n |-> b.d, d |-> b.n])

RatLess(a, b) == RatAdd(a, RatNeg(b)).n < 0
RatAbs(a) == [n |-> Abs(a.n), d |-> a.d]

\* Math.floor
Floor(a) == a.n \div a.d

\* The dividend kept: no decay
KeepVelocity(v) == v

\* velocityXRef.current /= 1 + 1 / 64 (lasso), /= 1.046875 (hold)
Decay(v) == RatDiv(v, IF variant = "lasso" THEN Rat(65, 64) ELSE Rat(67, 64))

\* window.visualViewport of a page that is not pinch-zoomed: pageLeft is the
\* scroll position
visualViewport == [width |-> 4, height |-> 64, scale |-> 1]

\* The refs of a Page that just mounted. v0, idle, ticks, scrolled and applied
\* are history: the velocity after the last change by a pointer-move and the
\* ticks since, the ticks so far, the sum of the arguments of their scrollBy
\* calls and the sum of the velocities they added.
MomentumIdle ==
  [velocityX |-> Rat(0, 1), velocityDecimalX |-> Rat(0, 1), sensitivity |-> Rat(32, 1),
   v0 |-> Rat(0, 1), idle |-> 0, ticks |-> 0, scrolled |-> 0, applied |-> Rat(0, 1)]

\* The svg starts tileSize / 2 right of the page's left edge (the left sentinel)
PageX(offsetX) == offsetX + tileSize \div 2

\* handlePointerMove, after dispatchPaths: the drag feedback
feedMomentum(in) ==
  IF paths = << >> \/ paths[Len(paths)] = << >> THEN momentum
  ELSE
    LET prevPoint == paths[Len(paths)][Len(paths[Len(paths)])]
        feedback == IF variant = "lasso"
                      THEN Rat(PageX(in[1]) - scroll.x, visualViewport.width)
                      ELSE Rat(in[1] - scroll.x, visualViewport.width)
        ahead == RatAdd(feedback, Rat(-1, 2))
        delta == IF variant = "lasso"
                   THEN Rat(Abs(in[2] - prevPoint.y),
                            CHOOSE r \in 1..visualViewport.scale :
                              r * r = visualViewport.scale)
                   ELSE Rat(Abs(in[2] - prevPoint.y), visualViewport.height)
        velocity == IF variant = "lasso"
                      THEN RatAdd(momentum.velocityX,
                                  RatDiv(RatMul(ahead, delta), Rat(16, 1)))
                      ELSE RatAdd(momentum.velocityX,
                                  RatMul(RatMul(ahead, delta), momentum.sensitivity))
    IN IF ahead.n < 0 THEN momentum
       ELSE [momentum EXCEPT
               !.velocityX = velocity,
               !.sensitivity =
                  IF variant = "lasso" THEN @
                  ELSE RatAdd(@, RatMul(RatMul(RatAdd(Rat(3, 4), RatNeg(feedback)), delta),
                                        Rat(2, 1))),
               !.v0 = velocity,
               !.idle = 0]

\* ------------------------------------------------------------------ Init
\* The effects of a mount that write the session's origin and extent to localStorage
PersistMount(store, m, w, h) ==
  SetItem(SetItem(SetItem(store, "mountedTime", String(m)), "canvasWidth", String(w)),
          "canvasHeight", String(h))

\* The export before the share button is clicked. paths: the Drawing the
\* handler closed over; width, height: the size given to the canvas element;
\* strokes: the polylines stroked, in bitmap coordinates; delivery: the
\* deliveries attempted, in order; error: the error thrown.
ShareIdle ==
  [pc |-> "idle", paths |-> << >>, width |-> 0, height |-> 0, strokes |-> << >>,
   delivery |-> << >>, error |-> "none", rejected |-> FALSE]

\* A page of variant v mounted on a storage whose "paths", if any, is one of saved
InitFrom(v, saved) ==
  /\ variant = v
  /\ now = 0
  /\ statePaths \in saved
  /\ paths = statePaths
  /\ statePointerID = undefined
  /\ pointerID = undefined
  /\ canvasWidth = tileSize * (CeilDiv(innerWidth, tileSize) + 4)
  /\ canvasHeight = tileSize * (CeilDiv(innerHeight, tileSize) + 4)
  /\ scroll = [x |-> (3 * tileSize) \div 2, y |-> (3 * tileSize) \div 2]
  /\ growTimers = [e \in Edges |-> 0]
  /\ timeoutID = (IF variant = "lasso" THEN << >>
                  ELSE [k \in 1..Len(statePaths) |-> undefined])
  /\ holdTimers = {}
  /\ nextTimeoutID = 1
  /\ intersectedCounts = << >>
  /\ crashed = FALSE
  /\ acceptedDowns = 0
  /\ mountedTime = 0
  /\ pageKey = 0
  /\ statePageKey = 0
  /\ staleTimers = [e \in Edges |-> 0]
  /\ share = ShareIdle
  /\ momentum = MomentumIdle
  /\ storage = PersistMount(IF statePaths = << >> THEN << >>
                            ELSE SetItem(<< >>, "paths", JSONstringify(statePaths)),
                            mountedTime, canvasWidth, canvasHeight)
  /\ saveTimer = <<paths>>

\* A page mounted on the storage a former session left
InitSession ==
  \/ InitFrom("lasso", SavedPathsLasso)
  \/ InitFrom("hold", SavedPathsHold)

Init == InitSession /\ timeoutBudget = MaxTimeouts

\* ------------------------------------------------------------ budget
\* The extent of a session started from defaults
DefaultCanvasWidth == tileSize * (CeilDiv(innerWidth, tileSize) + 4)
DefaultCanvasHeight == tileSize * (CeilDiv(innerHeight, tileSize) + 4)

\* The growths scheduled so far: the fired ones of this session and the pending ones.
GrowthsScheduled ==
  (canvasWidth - DefaultCanvasWidth) \div tileSize
  + (canvasHeight - DefaultCanvasHeight) \div tileSize
  + growTimers["top"] + growTimers["bottom"] + growTimers["left"] + growTimers["right"]
  + staleTimers["top"] + staleTimers["bottom"] + staleTimers["left"] + staleTimers["right"]

\* The calls of window.setTimeout so far, by the edge observers and by the Paths.
TimeoutsSet == GrowthsScheduled + (nextTimeoutID - 1)

\* ------------------------------------------------------------- rendering
\* The Path components after a render of n paths: the Path of a key that stays
\* mounted keeps its timeoutID state, a newly mounted one holds undefined.
Rekey(tids, n) ==
  IF variant = "lasso" THEN << >>
  ELSE [k \in 1..n |-> IF k <= Len(tids) THEN tids[k] ELSE undefined]

\* The paths effect of a render: with new paths its cleanup clears the pending
\* timeout and a new one is set for the paths just rendered; an unmount clears it.
SaveEffect ==
  saveTimer' = IF crashed' THEN << >>
               ELSE IF paths' # paths THEN <<paths'>> ELSE saveTimer

\* React renders the queued updates: the handlers and the DOM see the new state.
Render ==
  /\ ~crashed
  /\ <<paths, pointerID>> # <<statePaths, statePointerID>>
  /\ paths' = statePaths
  /\ pointerID' = statePointerID
  /\ timeoutID' = Rekey(timeoutID, Len(statePaths))
  /\ UNCHANGED <<variant, now, statePaths, statePointerID, canvasWidth, canvasHeight,
                 scroll, growTimers, holdTimers, nextTimeoutID, intersectedCounts,
                 crashed, acceptedDowns, storage>>
  /\ SaveEffect
  /\ UNCHANGED sessionVars

\* -------------------------------------------------------- state updaters
\* (prevPaths) => [...prevPaths, [point]]
AppendPath(prevPaths, point) == Append(prevPaths, <<point>>)

\* (prevPaths) => [...prevPaths.slice(0, -1), [...prevPaths[prevPaths.length - 1], currentPoint]]
\* Spreading prevPaths[-1] of an empty array throws a TypeError.
AppendPointThrows(prevPaths) == Len(prevPaths) = 0

AppendPoint(prevPaths, currentPoint) ==
  Slice(prevPaths, 0, -1) \o <<Append(prevPaths[Len(prevPaths)], currentPoint)>>

\* (prevPaths) => [...prevPaths.slice(0, -1)]
DropLastPath(prevPaths) == Slice(prevPaths, 0, -1)

\* -------------------------------------------------------------- geometry
pathTolineSegments(path) ==
  [i \in 1..(Len(path) - 1) |-> <<path[i], path[i + 1]>>]

\* u * v < 0 of two integers, without forming the product (the products of the
\* source are exact in double precision; they exceed the model checker's integers)
ProductNegative(u, v) == (u < 0 /\ v > 0) \/ (u > 0 /\ v < 0)

\* u * v <= 0 of two integers
ProductNotPositive(u, v) == (u <= 0 /\ v >= 0) \/ (u >= 0 /\ v <= 0)

\* The condition with <= 0 in place of < 0: touching segments count as well
IntersectsNonStrict(a, b) ==
  /\ ProductNotPositive(
       (a[1].x - a[2].x) * (b[1].y - a[1].y) + (a[1].y - a[2].y) * (a[1].x - b[1].x),
       (a[1].x - a[2].x) * (b[2].y - a[1].y) + (a[1].y - a[2].y) * (a[1].x - b[2].x))
  /\ ProductNotPositive(
       (b[1].x - b[2].x) * (a[1].y - b[1].y) + (b[1].y - b[2].y) * (b[1].x - a[1].x),
       (b[1].x - b[2].x) * (a[2].y - b[1].y) + (b[1].y - b[2].y) * (b[1].x - a[2].x))

\* The condition of the if in the double loop of handlePointerUp.
Intersects(a, b) ==
  /\ ProductNegative(
       (a[1].x - a[2].x) * (b[1].y - a[1].y) + (a[1].y - a[2].y) * (a[1].x - b[1].x),
       (a[1].x - a[2].x) * (b[2].y - a[1].y) + (a[1].y - a[2].y) * (a[1].x - b[2].x))
  /\ ProductNegative(
       (b[1].x - b[2].x) * (a[1].y - b[1].y) + (b[1].y - b[2].y) * (b[1].x - a[1].x),
       (b[1].x - b[2].x) * (a[2].y - b[1].y) + (b[1].y - b[2].y) * (b[1].x - a[2].x))

\* The inner loop left at the first crossing: a is counted once at most
InnerLoopAtMostOnce(a, currentLineSegments, j) ==
  IF \E i \in j..Len(currentLineSegments) : Intersects(a, currentLineSegments[i])
    THEN 1 ELSE 0

\* for (const b of currentLineSegments) { if (...) intersectedCount++ }, from segment j on
RECURSIVE InnerLoop(_, _, _)
InnerLoop(a, currentLineSegments, j) ==
  IF j > Len(currentLineSegments) THEN 0
  ELSE (IF Intersects(a, currentLineSegments[j]) THEN 1 ELSE 0)
       + InnerLoop(a, currentLineSegments, j + 1)

\* for (const a of pathTolineSegments(existingPath)) { ... }, from segment i on
RECURSIVE OuterLoop(_, _, _)
OuterLoop(existingLineSegments, currentLineSegments, i) ==
  IF i > Len(existingLineSegments) THEN 0
  ELSE InnerLoop(existingLineSegments[i], currentLineSegments, 1)
       + OuterLoop(existingLineSegments, currentLineSegments, i + 1)

\* intersectedCount of one existing path when the reducer returns
IntersectedCount(existingPath, currentLineSegments) ==
  OuterLoop(pathTolineSegments(existingPath), currentLineSegments, 1)

\* existingPaths.reduce((max, existingPath) => Math.max(max, intersectedCount), -Infinity)
RECURSIVE ReduceMax(_, _, _)
ReduceMax(counts, i, acc) ==
  IF i > Len(counts) THEN acc ELSE ReduceMax(counts, i + 1, Max(acc, counts[i]))

\* The reduction with max + intersectedCount in place of Math.max: the sum of the counts
RECURSIVE ReduceSum(_, _)
ReduceSum(counts, i) ==
  IF i > Len(counts) THEN 0 ELSE counts[i] + ReduceSum(counts, i + 1)

SumIntersectedCount(counts) == IF Len(counts) = 0 THEN NegInfinity ELSE ReduceSum(counts, 1)

MaxIntersectedCount(counts) == ReduceMax(counts, 1, NegInfinity)

\* currentPath.reduce((min, point) => Math.min(min, point.x), Infinity) and its like;
\* currentPath is never empty
MinOf(path, c) == CHOOSE v \in {path[i][c] : i \in 1..Len(path)} :
                    \A i \in 1..Len(path) : v <= path[i][c]
MaxOf(path, c) == CHOOSE v \in {path[i][c] : i \in 1..Len(path)} :
                    \A i \in 1..Len(path) : v >= path[i][c]

\* existingPath.reduce((sum, point) => sum + point.x, 0)
RECURSIVE SumOf(_, _, _)
SumOf(path, c, i) == IF i > Len(path) THEN 0 ELSE path[i][c] + SumOf(path, c, i + 1)

\* The filter predicate with > in place of >=: a box closed at maxX and maxY
KeepsPathClosedBox(existingPath, minX, maxX, minY, maxY) ==
  LET n == Len(existingPath)
      sumX == SumOf(existingPath, "x", 1)
      sumY == SumOf(existingPath, "y", 1)
  IN IF n = 0 THEN FALSE
     ELSE \/ sumX < minX * n
          \/ sumX > maxX * n
          \/ sumY < minY * n
          \/ sumY > maxY * n

\* The filter predicate of the erase branch: the path is kept when its centre lies
\* outside the box.  center = sum / length is compared without dividing
\* (length > 0); for an empty path the centre is NaN and every comparison is false.
KeepsPath(existingPath, minX, maxX, minY, maxY) ==
  LET n == Len(existingPath)
      sumX == SumOf(existingPath, "x", 1)
      sumY == SumOf(existingPath, "y", 1)
  IN IF n = 0 THEN FALSE
     ELSE \/ sumX < minX * n
          \/ sumX >= maxX * n
          \/ sumY < minY * n
          \/ sumY >= maxY * n

\* existingPaths.filter(...) of the erase branch
ErasePaths(existingPaths, currentPath) ==
  SelectSeq(existingPaths,
            LAMBDA existingPath :
              KeepsPath(existingPath, MinOf(currentPath, "x"), MaxOf(currentPath, "x"),
                        MinOf(currentPath, "y"), MaxOf(currentPath, "y")))

\* paths.at(-1) ?? []
LastPathOrEmpty(ps) == IF Len(ps) = 0 THEN << >> ELSE ps[Len(ps)]

\* The value handlePointerUp of the lasso variant passes to dispatchPaths.
NextPathsOnPointerUp(ps, currentPoint) ==
  LET currentPath == Append(LastPathOrEmpty(ps), currentPoint)
      currentLineSegments == pathTolineSegments(currentPath)
      existingPaths == Slice(ps, 0, -1)
      counts == [i \in 1..Len(existingPaths) |->
                   IntersectedCount(existingPaths[i], currentLineSegments)]
  IN IF MaxIntersectedCount(counts) < 8
       THEN Append(existingPaths, currentPath)
       ELSE ErasePaths(existingPaths, currentPath)

CountsOnPointerUp(ps, currentPoint) ==
  LET currentLineSegments == pathTolineSegments(Append(LastPathOrEmpty(ps), currentPoint))
      existingPaths == Slice(ps, 0, -1)
  IN [i \in 1..Len(existingPaths) |->
        IntersectedCount(existingPaths[i], currentLineSegments)]

\* ----------------------------------------------------- Page: pointer handlers
\* The variables the handlers of Page write.
pageVars == <<now, paths, pointerID, statePaths, statePointerID, intersectedCounts, crashed>>

\* The render that follows the updates of a discrete event.
Flush ==
  /\ paths' = statePaths'
  /\ pointerID' = statePointerID'

\* handlePointerDown without the early return on an active pointer
handlePointerDownUnguarded(id, in) ==
  /\ statePaths' = AppendPath(statePaths, Point(in[1], in[2], now, in[3]))
  /\ statePointerID' = id
  /\ now' = now + 1
  /\ Flush
  /\ UNCHANGED <<intersectedCounts, crashed>>

\* Page.handlePointerDown (the same text in both variants)
handlePointerDown(id, in) ==
  IF pointerID # undefined
    THEN UNCHANGED pageVars
    ELSE /\ statePaths' = AppendPath(statePaths, Point(in[1], in[2], now, in[3]))
         /\ statePointerID' = id
         /\ now' = now + 1
         /\ Flush
         /\ UNCHANGED <<intersectedCounts, crashed>>

\* Page.handlePointerMove: the state it changes (the same text in both variants)
handlePointerMove(id, in) ==
  IF pointerID # id
    THEN UNCHANGED pageVars
    ELSE IF AppendPointThrows(statePaths)
      THEN /\ crashed' = TRUE
           /\ UNCHANGED <<now, paths, pointerID, statePaths, statePointerID, intersectedCounts>>
      ELSE /\ statePaths' = AppendPoint(statePaths, Point(in[1], in[2], now, in[3]))
           /\ now' = now + 1
           /\ UNCHANGED <<paths, pointerID, statePointerID, intersectedCounts, crashed>>

\* Page.handlePointerUp of the lasso variant
handlePointerUp(id, in) ==
  IF pointerID # id
    THEN UNCHANGED pageVars
    ELSE /\ statePaths' = NextPathsOnPointerUp(paths, Point(in[1], in[2], now, in[3]))
         /\ intersectedCounts' = CountsOnPointerUp(paths, Point(in[1], in[2], now, in[3]))
         /\ statePointerID' = undefined
         /\ now' = now + 1
         /\ Flush
         /\ UNCHANGED crashed

\* Page.handlePointerUp of the hold variant
handlePointerUpHold(id, in) ==
  IF pointerID # id
    THEN UNCHANGED pageVars
    ELSE IF AppendPointThrows(statePaths)
      THEN /\ crashed' = TRUE
           /\ UNCHANGED <<now, paths, pointerID, statePaths, statePointerID, intersectedCounts>>
      ELSE /\ statePaths' = AppendPoint(statePaths, Point(in[1], in[2], now, in[3]))
           /\ statePointerID' = undefined
           /\ now' = now + 1
           /\ Flush
           /\ UNCHANGED <<intersectedCounts, crashed>>

\* Page.handlePointerCancel (the same text in both variants)
handlePointerCancel(id) ==
  IF pointerID # id
    THEN UNCHANGED pageVars
    ELSE /\ statePaths' = DropLastPath(statePaths)
         /\ statePointerID' = undefined
         /\ Flush
         /\ UNCHANGED <<now, intersectedCounts, crashed>>

\* ------------------------------------------- Path (hold variant): hit-region
\* Canvas: the erasable prop of the Path of key k (1-based)
erasable(k) == pointerID = undefined \/ k # Len(paths)

\* The element a pointer event is dispatched to: 0 is the svg itself, k > 0 the
\* hit-region of the Path of key k, which only an erasable Path of the hold
\* variant renders.
Targets == {0} \cup {k \in 1..Len(paths) : variant = "hold" /\ erasable(k)}

\* clearTimeout(id)
clearTimeout(id) == {tm \in holdTimers : tm.id # id}

\* Path.handlePointerDown of the Path of key k: window.setTimeout and setTimeoutID.
\* The callback closes over index; by (the pointer of the event) and path (the
\* stroke the Path renders) are recorded for the properties only.
PathHandlePointerDown(id, k) ==
  /\ TimeoutsSet < timeoutBudget
  /\ holdTimers' = holdTimers \cup
       {[id |-> nextTimeoutID, index |-> k - 1, by |-> id, path |-> paths[k]]}
  /\ nextTimeoutID' = nextTimeoutID + 1

PathTimeoutIDAfterDown(k) == [timeoutID EXCEPT ![k] = nextTimeoutID]

\* Path.handlePointerMove of the Path of key k; inside: elementsFromPoint includes
\* the hit-region
PathHandlePointerMove(k, inside) ==
  /\ holdTimers' = (IF inside THEN holdTimers ELSE clearTimeout(timeoutID[k]))
  /\ UNCHANGED nextTimeoutID

\* Path.handlePointerUp of the Path of key k, also its onPointerCancel
PathHandlePointerUp(k) ==
  /\ holdTimers' = clearTimeout(timeoutID[k])
  /\ UNCHANGED nextTimeoutID

\* ------------------------------------------------------- pointer events
\* A pointer event is dispatched to its target and bubbles to the svg: the
\* handler of the hit-region runs first, then the handler of Page.
otherVars == <<variant, canvasWidth, canvasHeight, scroll, growTimers, storage,
               mountedTime, pageKey, statePageKey, staleTimers, timeoutBudget, share>>

PointerDown(id, in, k) ==
  /\ ~crashed
  /\ now < MaxTime
  /\ IF k = 0 THEN UNCHANGED <<holdTimers, nextTimeoutID>> ELSE PathHandlePointerDown(id, k)
  /\ handlePointerDown(id, in)
  /\ timeoutID' = Rekey(IF k = 0 THEN timeoutID ELSE PathTimeoutIDAfterDown(k), Len(paths'))
  /\ acceptedDowns' = (IF pointerID = undefined THEN Min(acceptedDowns + 1, 2)
                       ELSE acceptedDowns)
  /\ SaveEffect
  /\ UNCHANGED momentum
  /\ UNCHANGED otherVars

PointerMove(id, in, k, inside) ==
  /\ ~crashed
  /\ now < MaxTime
  /\ IF k = 0 THEN UNCHANGED <<holdTimers, nextTimeoutID>>
     ELSE PathHandlePointerMove(k, inside)
  /\ handlePointerMove(id, in)
  /\ momentum' = (IF pointerID = id THEN feedMomentum(in) ELSE momentum)
  /\ UNCHANGED <<timeoutID, acceptedDowns>>
  /\ SaveEffect
  /\ UNCHANGED otherVars

PointerUp(id, in, k) ==
  /\ ~crashed
  /\ now < MaxTime
  /\ IF k = 0 THEN UNCHANGED <<holdTimers, nextTimeoutID>> ELSE PathHandlePointerUp(k)
  /\ IF variant = "lasso" THEN handlePointerUp(id, in) ELSE handlePointerUpHold(id, in)
  /\ timeoutID' = Rekey(timeoutID, Len(paths'))
  /\ acceptedDowns' = 0
  /\ SaveEffect
  /\ UNCHANGED momentum
  /\ UNCHANGED otherVars

PointerCancel(id, k) ==
  /\ ~crashed
  /\ IF k = 0 THEN UNCHANGED <<holdTimers, nextTimeoutID>> ELSE PathHandlePointerUp(k)
  /\ handlePointerCancel(id)
  /\ timeoutID' = Rekey(timeoutID, Len(paths'))
  /\ acceptedDowns' = 0
  /\ SaveEffect
  /\ UNCHANGED momentum
  /\ UNCHANGED otherVars

\* The callback of the timeout Path.handlePointerDown set fires.
PathTimeout(tm) ==
  /\ ~crashed
  /\ tm \in holdTimers
  /\ statePaths' = Slice(statePaths, 0, tm.index) \o Slice(statePaths, tm.index + 1, -1)
  /\ statePointerID' = undefined
  /\ holdTimers' = holdTimers \ {tm}
  /\ UNCHANGED <<variant, now, paths, pointerID, canvasWidth, canvasHeight, scroll,
                 growTimers, timeoutID, nextTimeoutID, intersectedCounts, crashed,
                 acceptedDowns, storage, saveTimer>>
  /\ UNCHANGED sessionVars

\* ------------------------------------------------------------ edge growth
\* The map that leaves the last path, the one a pointer may be drawing, where it is
ShiftCommittedPaths(prevPaths, c) ==
  [i \in 1..Len(prevPaths) |->
     [j \in 1..Len(prevPaths[i]) |->
        IF i = Len(prevPaths) THEN prevPaths[i][j]
        ELSE [prevPaths[i][j] EXCEPT ![c] = @ + tileSize]]]

\* prevPaths.map((prevPath) => prevPath.map((prevPoint) => ({...prevPoint, [c]: prevPoint[c] + tileSize})))
ShiftPaths(prevPaths, c) ==
  [i \in 1..Len(prevPaths) |->
     [j \in 1..Len(prevPaths[i]) |->
        [prevPaths[i][j] EXCEPT ![c] = @ + tileSize]]]

\* The callback of an IntersectionObserver with an intersecting entry: setTimeout(..., 500)
Observe(edge) ==
  /\ ~crashed
  /\ TimeoutsSet < timeoutBudget
  /\ growTimers' = [growTimers EXCEPT ![edge] = @ + 1]
  /\ UNCHANGED <<variant, now, paths, pointerID, statePaths, statePointerID, canvasWidth,
                 canvasHeight, scroll, timeoutID, holdTimers, nextTimeoutID,
                 intersectedCounts, crashed, acceptedDowns, storage, saveTimer>>
  /\ UNCHANGED sessionVars

topObserver == Observe("top")
bottomObserver == Observe("bottom")
leftObserver == Observe("left")
rightObserver == Observe("right")

growFrame == <<variant, now, paths, pointerID, statePointerID, timeoutID, holdTimers,
               nextTimeoutID, intersectedCounts, crashed, acceptedDowns, saveTimer,
               mountedTime, pageKey, statePageKey, staleTimers, timeoutBudget, share,
               momentum>>

\* The extents are kept in memory only.
PersistNothing == storage' = storage

\* The effect of the commit that follows a change of an extent: no handler reads
\* the extents, so the model persists them in the step that changes them.
PersistExtent ==
  storage' = SetItem(SetItem(storage, "canvasWidth", String(canvasWidth')),
                     "canvasHeight", String(canvasHeight'))

\* The timeout of topObserver fires.
topTimeout ==
  /\ ~crashed
  /\ growTimers["top"] > 0
  /\ growTimers' = [growTimers EXCEPT !["top"] = @ - 1]
  /\ canvasHeight' = canvasHeight + tileSize
  /\ scroll' = [scroll EXCEPT !.y = @ + tileSize]
  /\ statePaths' = ShiftPaths(statePaths, "y")
  /\ UNCHANGED canvasWidth
  /\ PersistExtent
  /\ UNCHANGED growFrame

\* The callback of topObserver run for the bottom edge: it scrolls and remaps as well
bottomTimeoutRemapping ==
  /\ ~crashed
  /\ growTimers["bottom"] > 0
  /\ growTimers' = [growTimers EXCEPT !["bottom"] = @ - 1]
  /\ canvasHeight' = canvasHeight + tileSize
  /\ scroll' = [scroll EXCEPT !.y = @ + tileSize]
  /\ statePaths' = ShiftPaths(statePaths, "y")
  /\ UNCHANGED canvasWidth
  /\ PersistExtent
  /\ UNCHANGED growFrame

\* The timeout of bottomObserver fires.
bottomTimeout ==
  /\ ~crashed
  /\ growTimers["bottom"] > 0
  /\ growTimers' = [growTimers EXCEPT !["bottom"] = @ - 1]
  /\ canvasHeight' = canvasHeight + tileSize
  /\ UNCHANGED <<canvasWidth, scroll, statePaths>>
  /\ PersistExtent
  /\ UNCHANGED growFrame

\* The timeout of leftObserver fires.
leftTimeout ==
  /\ ~crashed
  /\ growTimers["left"] > 0
  /\ growTimers' = [growTimers EXCEPT !["left"] = @ - 1]
  /\ canvasWidth' = canvasWidth + tileSize
  /\ scroll' = [scroll EXCEPT !.x = @ + tileSize]
  /\ statePaths' = ShiftPaths(statePaths, "x")
  /\ UNCHANGED canvasHeight
  /\ PersistExtent
  /\ UNCHANGED growFrame

\* The timeout of rightObserver fires.
rightTimeout ==
  /\ ~crashed
  /\ growTimers["right"] > 0
  /\ growTimers' = [growTimers EXCEPT !["right"] = @ - 1]
  /\ canvasWidth' = canvasWidth + tileSize
  /\ UNCHANGED <<canvasHeight, scroll, statePaths>>
  /\ PersistExtent
  /\ UNCHANGED growFrame

\* What a growth acts on: the extents, the scroll position of the window and
\* the state of the paths hook.
Extent ==
  [canvasWidth |-> canvasWidth, canvasHeight |-> canvasHeight,
   scroll |-> scroll, paths |-> statePaths]

\* A growth that positions the window with scrollTo(1.5 * tileSize, ...) on the
\* other axis instead of scrollBy
GrowScrollTo(edge, g) ==
  [canvasWidth |-> g.canvasWidth + (IF edge \in {"left", "right"} THEN tileSize ELSE 0),
   canvasHeight |-> g.canvasHeight + (IF edge \in {"top", "bottom"} THEN tileSize ELSE 0),
   scroll |-> (IF edge = "left"
               THEN [x |-> g.scroll.x + tileSize, y |-> (3 * tileSize) \div 2]
               ELSE IF edge = "top"
               THEN [x |-> (3 * tileSize) \div 2, y |-> g.scroll.y + tileSize]
               ELSE g.scroll),
   paths |-> (IF edge = "left" THEN ShiftPaths(g.paths, "x")
              ELSE IF edge = "top" THEN ShiftPaths(g.paths, "y")
              ELSE g.paths)]

\* The timeout callback of the observer of an edge, as a function
Grow(edge, g) ==
  [canvasWidth |-> g.canvasWidth + (IF edge \in {"left", "right"} THEN tileSize ELSE 0),
   canvasHeight |-> g.canvasHeight + (IF edge \in {"top", "bottom"} THEN tileSize ELSE 0),
   scroll |-> [x |-> g.scroll.x + (IF edge = "left" THEN tileSize ELSE 0),
               y |-> g.scroll.y + (IF edge = "top" THEN tileSize ELSE 0)],
   paths |-> (IF edge = "left" THEN ShiftPaths(g.paths, "x")
              ELSE IF edge = "top" THEN ShiftPaths(g.paths, "y")
              ELSE g.paths)]

\* ---------------------------------------------------------- specification
Next ==
  \/ \E id \in PointerIDs, in \in PointerInputs, k \in Targets : PointerDown(id, in, k)
  \/ \E id \in PointerIDs, in \in PointerInputs, k \in Targets :
       \E inside \in (IF k = 0 THEN {FALSE} ELSE BOOLEAN) : PointerMove(id, in, k, inside)
  \/ \E id \in PointerIDs, in \in PointerInputs, k \in Targets : PointerUp(id, in, k)
  \/ \E id \in PointerIDs, k \in Targets : PointerCancel(id, k)
  \/ \E tm \in holdTimers : PathTimeout(tm)
  \/ Render
  \/ topObserver
  \/ bottomObserver
  \/ leftObserver
  \/ rightObserver
  \/ topTimeout
  \/ bottomTimeout
  \/ leftTimeout
  \/ rightTimeout

Spec == Init /\ [][Next]_vars

\* ------------------------------------------ save, reload and clear: SpecStore
\* The callback of the timeout of the paths effect: localStorage.setItem("paths", ...)
SaveTimeout ==
  /\ ~crashed
  /\ saveTimer # << >>
  /\ storage' = SetItem(storage, "paths", JSONstringify(saveTimer[1]))
  /\ saveTimer' = << >>
  /\ UNCHANGED <<variant, now, paths, pointerID, statePaths, statePointerID, canvasWidth,
                 canvasHeight, scroll, growTimers, timeoutID, holdTimers, nextTimeoutID,
                 intersectedCounts, crashed, acceptedDowns>>
  /\ UNCHANGED sessionVars

\* A Page mounts: the useState initialisers read localStorage, the mount effect
\* scrolls, the effects store the origin and the extents and start the save
\* window; the timeouts and states of the Path components of the Page before are
\* out of reach.
Mount ==
  /\ canvasWidth' = (IF Missing("canvasWidth") THEN DefaultCanvasWidth
                     ELSE Number(storage["canvasWidth"]))
  /\ canvasHeight' = (IF Missing("canvasHeight") THEN DefaultCanvasHeight
                      ELSE Number(storage["canvasHeight"]))
  /\ mountedTime' = (IF Missing("mountedTime") THEN mountedTime + now
                     ELSE Number(storage["mountedTime"]))
  /\ now' = mountedTime + now - mountedTime'
  /\ statePaths' = (IF Missing("paths") THEN << >> ELSE JSONparse(storage["paths"]))
  /\ paths' = statePaths'
  /\ statePointerID' = undefined
  /\ pointerID' = undefined
  /\ scroll' = [x |-> (3 * tileSize) \div 2, y |-> (3 * tileSize) \div 2]
  /\ growTimers' = [e \in Edges |-> 0]
  /\ holdTimers' = {}
  /\ timeoutID' = (IF variant = "lasso" THEN << >>
                   ELSE [k \in 1..Len(statePaths') |-> undefined])
  /\ intersectedCounts' = << >>
  /\ acceptedDowns' = 0
  /\ storage' = PersistMount(storage, mountedTime', canvasWidth', canvasHeight')
  /\ saveTimer' = <<paths'>>
  /\ pageKey' = statePageKey
  /\ momentum' = MomentumIdle

\* The page is loaded again: every timer of the old document is gone.
Reload ==
  /\ Mount
  /\ staleTimers' = [e \in Edges |-> 0]
  /\ crashed' = FALSE
  /\ share' = ShareIdle
  /\ UNCHANGED <<variant, nextTimeoutID, statePageKey, timeoutBudget>>

\* The keys handleClearButtonClick removes
ClearedKeys == {"canvasWidth", "canvasHeight", "mountedTime", "paths"}

\* handleClearButtonClick: the keys are removed and a new key is dispatched.
handleClearButtonClick ==
  /\ ~crashed
  /\ pageKey = statePageKey
  /\ statePageKey < MaxClears
  /\ statePageKey' = statePageKey + 1
  /\ storage' = RemoveItems(storage, ClearedKeys)
  /\ UNCHANGED <<variant, now, paths, pointerID, statePaths, statePointerID, canvasWidth,
                 canvasHeight, scroll, growTimers, timeoutID, holdTimers, nextTimeoutID,
                 intersectedCounts, crashed, acceptedDowns, saveTimer, mountedTime,
                 pageKey, staleTimers, timeoutBudget, share, momentum>>

\* The render of App with the new key: the Page of the old key unmounts (its
\* effect cleanups disconnect the observers and clear the timeout of the paths
\* effect; its edge-growth timeouts stay pending) and a Page mounts.
Remount ==
  /\ pageKey # statePageKey
  /\ Mount
  /\ staleTimers' = [e \in Edges |-> staleTimers[e] + growTimers[e]]
  /\ UNCHANGED <<variant, nextTimeoutID, crashed, statePageKey, timeoutBudget, share>>

\* An edge-growth timeout of an unmounted Page fires: its state updates change
\* nothing, its scrollBy scrolls the window.
StaleTimeout(edge) ==
  /\ staleTimers[edge] > 0
  /\ staleTimers' = [staleTimers EXCEPT ![edge] = @ - 1]
  /\ scroll' = [x |-> scroll.x + (IF edge = "left" THEN tileSize ELSE 0),
                y |-> scroll.y + (IF edge = "top" THEN tileSize ELSE 0)]
  /\ UNCHANGED <<variant, now, paths, pointerID, statePaths, statePointerID, canvasWidth,
                 canvasHeight, growTimers, timeoutID, holdTimers, nextTimeoutID,
                 intersectedCounts, crashed, acceptedDowns, storage, saveTimer,
                 mountedTime, pageKey, statePageKey, timeoutBudget, share, momentum>>

\* A first visit: nothing is stored.
InitStore == InitSession /\ statePaths = << >> /\ timeoutBudget = MaxTimeouts

\* Between the click on the clear button and the render of the new key no
\* other callback runs: in the lasso variant the handler ends in an alert, and
\* React renders the update of a click before the event returns.
NextStore ==
  \/ pageKey = statePageKey /\ Next
  \/ pageKey = statePageKey /\ SaveTimeout
  \/ pageKey = statePageKey /\ \E edge \in Edges : StaleTimeout(edge)
  \/ handleClearButtonClick
  \/ Remount
  \/ Reload

SpecStore == InitStore /\ [][NextStore]_vars

\* --------------------------------------------------- hold erase: SpecHold
\* The Path components call setTimeout at most MaxHoldTimeouts times.
MaxHoldTimeouts == 2

\* A session of the hold variant
InitHold == InitSession /\ variant = "hold" /\ timeoutBudget = MaxHoldTimeouts

NextHold ==
  \/ \E id \in PointerIDs, in \in PointerInputs, k \in Targets : PointerDown(id, in, k)
  \/ \E id \in PointerIDs, in \in PointerInputs, k \in Targets :
       \E inside \in (IF k = 0 THEN {FALSE} ELSE BOOLEAN) : PointerMove(id, in, k, inside)
  \/ \E id \in PointerIDs, in \in PointerInputs, k \in Targets : PointerUp(id, in, k)
  \/ \E id \in PointerIDs, k \in Targets : PointerCancel(id, k)
  \/ \E tm \in holdTimers : PathTimeout(tm)
  \/ Render

SpecHold == InitHold /\ [][NextHold]_vars

\* ------------------------------------------------- edge growth: SpecGrow
\* The observers call setTimeout at most MaxGrowTimeouts times.
MaxGrowTimeouts == 2

\* A session with a stored drawing and no pointer on the canvas
InitGrow == InitSession /\ timeoutBudget = MaxGrowTimeouts

NextGrow ==
  \/ topObserver
  \/ bottomObserver
  \/ leftObserver
  \/ rightObserver
  \/ topTimeout
  \/ bottomTimeout
  \/ leftTimeout
  \/ rightTimeout
  \/ Render

SpecGrow == InitGrow /\ [][NextGrow]_vars

\* ------------------------------------------------------- export: SpecShare
\* The square root of a square number
Sqrt(n) == CHOOSE r \in 0..n : r * r = n

\* The length the filter of handleShareButtonClick sums up for a path
RECURSIVE PathLength(_, _)
PathLength(path, i) ==
  IF i < 2 THEN 0
  ELSE PathLength(path, i - 1)
       + Sqrt((path[i].x - path[i - 1].x) * (path[i].x - path[i - 1].x)
              + (path[i].y - path[i - 1].y) * (path[i].y - path[i - 1].y))

\* paths.filter((path) => length >= 8)
noiseFilteredPaths(ps) ==
  SelectSeq(ps, LAMBDA path : PathLength(path, Len(path)) >= NoiseThreshold)

\* array.flat()
RECURSIVE Flat(_)
Flat(ps) == IF ps = << >> THEN << >> ELSE Flat(Slice(ps, 0, -1)) \o ps[Len(ps)]

\* points.reduce((a, b) => Math.max(a, b[c]), -Infinity) and the same with Math.min
RECURSIVE ReduceMaxOf(_, _)
ReduceMaxOf(points, c) ==
  IF points = << >> THEN NegInfinity
  ELSE Max(ReduceMaxOf(Slice(points, 0, -1), c), points[Len(points)][c])

RECURSIVE ReduceMinOf(_, _)
ReduceMinOf(points, c) ==
  IF points = << >> THEN Infinity
  ELSE Min(ReduceMinOf(Slice(points, 0, -1), c), points[Len(points)][c])

padding == IF variant = "lasso" THEN 8 ELSE 4
canvasZoom == IF variant = "lasso" THEN 8 ELSE 4

\* The strokes the bounding box is taken of
ExportedPaths(ps) == IF variant = "lasso" THEN noiseFilteredPaths(ps) ELSE ps

\* A box with the padding on the far sides only
BoundingBoxFarPadding(points) ==
  [maxX |-> ReduceMaxOf(points, "x") + padding, minX |-> ReduceMinOf(points, "x"),
   maxY |-> ReduceMaxOf(points, "y") + padding, minY |-> ReduceMinOf(points, "y")]

\* maxX, minX, maxY, minY of handleShareButtonClick
BoundingBox(points) ==
  [maxX |-> ReduceMaxOf(points, "x") + padding, minX |-> ReduceMinOf(points, "x") - padding,
   maxY |-> ReduceMaxOf(points, "y") + padding, minY |-> ReduceMinOf(points, "y") - padding]

\* The moveTo and lineTo calls of one path
BitmapStroke(path, box) ==
  [j \in 1..Len(path) |-> [x |-> (path[j].x - box.minX) * canvasZoom,
                           y |-> (path[j].y - box.minY) * canvasZoom]]

\* handleShareButtonClick up to the await of toBlob. Without points the box is
\* (-Infinity, Infinity): the width attribute takes -Infinity as 0 and the
\* context ignores moveTo and lineTo with a coordinate that is not finite.
\* context: getContext("2d") returns a context.
handleShareButtonClick(context) ==
  /\ ~crashed
  /\ share.pc \in {"idle", "done", "failed"}
  /\ LET points == Flat(ExportedPaths(paths))
         box == BoundingBox(points)
     IN  share' =
           [pc |-> IF context THEN "encoding" ELSE "failed",
            paths |-> paths,
            width |-> IF points = << >> THEN 0 ELSE (box.maxX - box.minX) * canvasZoom,
            height |-> IF points = << >> THEN 0 ELSE (box.maxY - box.minY) * canvasZoom,
            strokes |-> IF ~context \/ points = << >> THEN << >>
                        ELSE [i \in 1..Len(paths) |-> BitmapStroke(paths[i], box)],
            delivery |-> << >>,
            error |-> IF context THEN "none" ELSE "context",
            rejected |-> FALSE]
  /\ UNCHANGED <<variant, now, paths, pointerID, statePaths, statePointerID, canvasWidth,
                 canvasHeight, scroll, growTimers, timeoutID, holdTimers, nextTimeoutID,
                 intersectedCounts, crashed, acceptedDowns, storage, saveTimer,
                 mountedTime, pageKey, statePageKey, staleTimers, timeoutBudget, momentum>>

shareFrame == <<variant, now, paths, pointerID, statePaths, statePointerID, canvasWidth,
                canvasHeight, scroll, growTimers, timeoutID, holdTimers, nextTimeoutID,
                intersectedCounts, crashed, acceptedDowns, storage, saveTimer,
                mountedTime, pageKey, statePageKey, staleTimers, timeoutBudget, momentum>>

\* A rejected share followed by the download
ShareSettledWithFallback(rejected) ==
  /\ share.pc = "sharing"
  /\ share' = [share EXCEPT !.pc = "done", !.rejected = rejected,
                            !.delivery = IF rejected THEN Append(@, "download") ELSE @]
  /\ UNCHANGED shareFrame

\* The callback of toBlob resolves the promise: the blob check, canShare and
\* the start of a delivery. A canvas without pixels gives null.
\* blob: the encoder produced a blob; canShare: navigator.canShare?.(shareData)
ToBlobResolved(blob, canShare) ==
  /\ share.pc = "encoding"
  /\ share' =
       IF ~blob \/ share.width = 0 \/ share.height = 0
         THEN [share EXCEPT !.pc = "failed", !.error = "blob"]
       ELSE IF canShare
         THEN [share EXCEPT !.pc = "sharing", !.delivery = Append(@, "share")]
       ELSE [share EXCEPT !.pc = "done", !.delivery = Append(@, "download")]
  /\ UNCHANGED shareFrame

\* navigator.share(shareData) settles: try { await ... } catch {}
ShareSettled(rejected) ==
  /\ share.pc = "sharing"
  /\ share' = [share EXCEPT !.pc = "done", !.rejected = rejected]
  /\ UNCHANGED shareFrame

\* Drawings to export: segments of integer length, among them strokes of length
\* 7, 8 and 0 and the drawing with x in [10, 50] and y in [20, 80].
Polyline(xys) == [i \in 1..Len(xys) |-> Point(xys[i][1], xys[i][2], 0, 1)]

ExportPaths ==
  { << >>,
    <<Polyline(<<<<0, 0>>, <<8, 0>>>>)>>,
    <<Polyline(<<<<0, 0>>, <<7, 0>>>>)>>,
    <<Polyline(<<<<0, 0>>, <<8, 0>>>>), Dot(4, 3)>>,
    <<Dot(4, 3), Polyline(<<<<0, 0>>, <<3, 4>>, <<6, 8>>>>)>>,
    <<Polyline(<<<<10, 20>>, <<50, 20>>, <<50, 80>>>>)>>,
    <<Polyline(<<<<10, 20>>, <<50, 20>>>>), Polyline(<<<<30, 80>>, <<30, 77>>>>)>> }

\* offsetX, offsetY, pressure of the pointer events during an export: the
\* pointer draws along the x axis
ExportInputs == {<<0, 0, 1>>, <<8, 0, 1>>}

InitShare ==
  /\ \/ InitFrom("lasso", ExportPaths)
     \/ InitFrom("hold", ExportPaths)
  /\ timeoutBudget = 0

NextShare ==
  \/ \E context \in BOOLEAN : handleShareButtonClick(context)
  \/ \E blob \in BOOLEAN, canShare \in BOOLEAN : ToBlobResolved(blob, canShare)
  \/ \E rejected \in BOOLEAN : ShareSettled(rejected)
  \/ \E in \in ExportInputs : PointerDown(1, in, 0)
  \/ \E in \in ExportInputs : PointerMove(1, in, 0, FALSE)
  \/ \E in \in ExportInputs : PointerUp(1, in, 0)
  \/ Render

SpecShare == InitShare /\ [][NextShare]_vars

\* ------------------------------------- the intersection test over a grid
\* The coordinates of the grid are 0..GridMax.
GridMax == 2
GridPoints == (0..GridMax) \X (0..GridMax)

\* The lasso page with one saved stroke of one segment a0-a1, after a
\* pointer-down of pointer 1 at b0.
InitCross ==
  /\ variant = "lasso"
  /\ now = 1
  /\ \E a0 \in GridPoints, a1 \in GridPoints, b0 \in GridPoints :
       statePaths = << <<Point(a0[1], a0[2], 0, 1), Point(a1[1], a1[2], 0, 1)>>,
                       <<Point(b0[1], b0[2], 0, 1)>> >>
  /\ paths = statePaths
  /\ statePointerID = 1
  /\ pointerID = 1
  /\ canvasWidth = tileSize * (CeilDiv(innerWidth, tileSize) + 4)
  /\ canvasHeight = tileSize * (CeilDiv(innerHeight, tileSize) + 4)
  /\ scroll = [x |-> (3 * tileSize) \div 2, y |-> (3 * tileSize) \div 2]
  /\ growTimers = [e \in Edges |-> 0]
  /\ timeoutID = << >>
  /\ holdTimers = {}
  /\ nextTimeoutID = 1
  /\ intersectedCounts = << >>
  /\ crashed = FALSE
  /\ acceptedDowns = 1
  /\ mountedTime = 0
  /\ pageKey = 0
  /\ statePageKey = 0
  /\ staleTimers = [e \in Edges |-> 0]
  /\ timeoutBudget = 0
  /\ share = ShareIdle
  /\ momentum = MomentumIdle
  /\ storage = PersistMount(SetItem(<< >>, "paths", JSONstringify(<<statePaths[1]>>)),
                            mountedTime, canvasWidth, canvasHeight)
  /\ saveTimer = <<paths>>

\* The pointer-up of pointer 1 at b1.
NextCross == \E b1 \in GridPoints : PointerUp(1, <<b1[1], b1[2], 1>>, 0)

SpecCross == InitCross /\ [][NextCross]_vars

\* ------------------------------------------------- momentum scroll: SpecScroll
\* The interval callback runs at most MaxTicks times.
MaxTicks == 2

\* The sum carried whole: the scrolled distance is not taken off
NextRemainderKeepingSum(sum) == sum

\* velocityDecimalXRef.current -= Math.floor(velocityDecimalXRef.current)
NextRemainder(sum) == RatAdd(sum, Rat(-Floor(sum), 1))

\* The callback of setInterval: the tick
ScrollTick ==
  /\ ~crashed
  /\ momentum.ticks < MaxTicks
  /\ LET sum == RatAdd(momentum.velocityDecimalX, momentum.velocityX)
         velocityIntegerX == Floor(sum)
     IN /\ scroll' = [scroll EXCEPT !.x = @ + velocityIntegerX]
        /\ momentum' = [momentum EXCEPT
                          !.velocityDecimalX = NextRemainder(sum),
                          !.velocityX = Decay(@),
                          !.idle = @ + 1,
                          !.ticks = @ + 1,
                          !.scrolled = @ + velocityIntegerX,
                          !.applied = RatAdd(@, momentum.velocityX)]
  /\ UNCHANGED <<variant, now, paths, pointerID, statePaths, statePointerID, canvasWidth,
                 canvasHeight, growTimers, timeoutID, holdTimers, nextTimeoutID,
                 intersectedCounts, crashed, acceptedDowns, storage, saveTimer,
                 mountedTime, pageKey, statePageKey, staleTimers, timeoutBudget, share>>

\* offsetX, offsetY and pressure of the pointer events of a drag with vertical
\* steps in the right half of the viewport: feedback 3/4 and 1 (lasso), 1/2 and
\* 3/4 (hold) before the first scroll, a quarter less after each unit scrolled
ScrollInputs ==
  IF variant = "lasso"
    THEN {<<x, y, 1>> : x \in {1283, 1284}, y \in {0, 65, 66}}
    ELSE {<<x, y, 1>> : x \in {194, 195}, y \in {0, 8}}

\* A first visit; no timeout is set.
InitScroll == InitSession /\ statePaths = << >> /\ timeoutBudget = 0

NextScroll ==
  \/ \E in \in ScrollInputs : PointerDown(1, in, 0)
  \/ \E in \in ScrollInputs : PointerMove(1, in, 0, FALSE)
  \/ \E in \in ScrollInputs : PointerUp(1, in, 0)
  \/ Render
  \/ ScrollTick

SpecScroll == InitScroll /\ [][NextScroll]_vars

\* ================================================================== properties
\* The point a pointer event with input in records at the current time.
EventPoint(in) == Point(in[1], in[2], now, in[3])

\* The state the specification calls Drawing and ActivePointer, with what the handlers see of it.
drawingVars == <<statePaths, statePointerID, paths, pointerID>>

\* ---------------------------------------------------------------------- C1
\* C1 as stated: of the pointer-downs delivered with no pointer-up or
\* pointer-cancel between them only the first is accepted, so at most one
\* pointer-down has been accepted since the last pointer-up/cancel.
C1_OnlyFirstDownAccepted == acceptedDowns <= 1

\* C1, amended: a pointer-down delivered while a pointer is active leaves the
\* Drawing and ActivePointer unchanged; one delivered while no pointer is active
\* appends exactly one singleton stroke and makes its id the ActivePointer.  A
\* second pointer-down is accepted without a pointer-up/cancel between only in
\* the hold variant, after a hold timer was started (its firing clears
\* ActivePointer).
C1_SingleActivePointer ==
  /\ [](acceptedDowns > 1 => (variant = "hold" /\ nextTimeoutID > 1))
  /\ [][\A id \in PointerIDs, in \in PointerInputs, k \in Targets :
          PointerDown(id, in, k) =>
            IF pointerID # undefined
              THEN UNCHANGED drawingVars
              ELSE /\ statePaths' = Append(statePaths, <<EventPoint(in)>>)
                   /\ statePointerID' = id
                   /\ paths' = statePaths'
                   /\ pointerID' = id]_vars

\* A pointer-down was accepted: pointer 2 is active on a singleton last stroke,
\* the state in which every further pointer-down is ignored.
C1_Witness ==
  /\ pointerID = 2
  /\ statePointerID = 2
  /\ acceptedDowns = 1
  /\ Len(statePaths) > 0
  /\ Len(statePaths[Len(statePaths)]) = 1

\* ---------------------------------------------------------------------- C2
\* C2 as stated: in the hold variant a pointer-down that arrives while another
\* pointer is active starts no timer, wherever it lands.
C2_SecondDownStartsNoTimer ==
  [][\A id \in PointerIDs, in \in PointerInputs, k \in Targets :
       (variant = "hold" /\ pointerID # undefined /\ id # pointerID
        /\ PointerDown(id, in, k))
       => (holdTimers' = holdTimers /\ nextTimeoutID' = nextTimeoutID)]_vars

\* ---------------------------------------------------------------------- C3
\* C3 as stated: a pointer-move or pointer-up whose id is not the ActivePointer
\* changes neither the Drawing nor the ActivePointer; a pointer-move of the
\* ActivePointer appends exactly one point to the last stroke and leaves the
\* other strokes and the earlier points of the last stroke as they were.
C3_MoveAndUpFrame ==
  [][\A id \in PointerIDs, in \in PointerInputs, k \in Targets :
       /\ \A inside \in BOOLEAN :
            PointerMove(id, in, k, inside) =>
              IF id # pointerID
                THEN UNCHANGED drawingVars
                ELSE /\ ~crashed'
                     /\ Len(statePaths) > 0
                     /\ statePaths' = [statePaths EXCEPT ![Len(statePaths)] =
                                         Append(@, EventPoint(in))]
                     /\ statePointerID' = statePointerID
       /\ (PointerUp(id, in, k) /\ id # pointerID) => UNCHANGED drawingVars]_vars

\* ---------------------------------------------------------------------- C4
\* C4 as stated: a pointer-cancel of the ActivePointer removes exactly the last
\* stroke, which is the in-progress stroke of that pointer, keeps the other
\* strokes in order and clears ActivePointer; a pointer-cancel with any other id
\* changes nothing.
C4_CancelRemovesInProgress ==
  [][\A id \in PointerIDs, k \in Targets :
       PointerCancel(id, k) =>
         IF id # pointerID
           THEN UNCHANGED drawingVars
           ELSE /\ statePointerID = id
                /\ Len(statePaths) > 0
                /\ statePaths' = SubSeq(statePaths, 1, Len(statePaths) - 1)
                /\ statePointerID' = undefined
                /\ pointerID' = undefined]_vars

\* ------------------------------------------------- lasso pointer-up, C5-C7
\* The pointer-up of the active pointer in the lasso variant.
LassoUp(id, in) == variant = "lasso" /\ id = pointerID /\ PointerUp(id, in, 0)

\* The strokes the pointer-up handler compares: the finished stroke and the
\* existing ones, of the paths it sees.
FinishedStroke(in) == Append(paths[Len(paths)], EventPoint(in))
ExistingStrokes == SubSeq(paths, 1, Len(paths) - 1)

\* The erase threshold of the specification.
EraseThreshold == 8

\* ---------------------------------------------------------------------- C5
\* C5: on a lasso pointer-up the finished stroke is an eraser iff some single
\* existing stroke has a crossing count of at least 8; when every count is
\* below 8, whatever their sum, or there is no existing stroke, nothing is
\* erased and the finished stroke is committed as the last stroke.
C5_PerStrokeMaximum ==
  [][\A id \in PointerIDs, in \in PointerInputs :
       LassoUp(id, in) =>
         /\ Len(paths) > 0
         /\ Len(intersectedCounts') = Len(ExistingStrokes)
         /\ IF \E i \in 1..Len(intersectedCounts') : intersectedCounts'[i] >= EraseThreshold
              THEN /\ Len(statePaths') <= Len(ExistingStrokes)
                   /\ \A i \in 1..Len(statePaths') : statePaths'[i] # FinishedStroke(in)
              ELSE statePaths' = Append(ExistingStrokes, FinishedStroke(in))]_vars

\* A stroke crossing two existing strokes 5 times each was committed as the
\* third stroke.
C5_Witness ==
  /\ variant = "lasso"
  /\ intersectedCounts = <<5, 5>>
  /\ pointerID = undefined
  /\ Len(statePaths) = 3
  /\ Len(statePaths[3]) = 2

\* ---------------------------------------------------------------------- C6
\* The centroid of stroke s lies in the half-open bounding box of stroke cur:
\* minX <= cx < maxX and minY <= cy < maxY, with cx = sumX / n, cy = sumY / n
\* (minX <= cx iff some x of cur is <= cx; cx < maxX iff some x of cur is > cx).
CentroidInBox(s, cur) ==
  LET n == Len(s)
      sumX == SumOf(s, "x", 1)
      sumY == SumOf(s, "y", 1)
      xs == {cur[i].x : i \in 1..Len(cur)}
      ys == {cur[i].y : i \in 1..Len(cur)}
  IN /\ \E v \in xs : v * n <= sumX
     /\ \E v \in xs : sumX < v * n
     /\ \E v \in ys : v * n <= sumY
     /\ \E v \in ys : sumY < v * n

\* C6: when the lasso erase triggers, an existing stroke is removed iff its
\* centroid lies in the half-open bounding box of the finished stroke; the kept
\* strokes stay in order, the finished stroke is not in the Drawing, and
\* ActivePointer is cleared.
C6_CentroidHalfOpenBox ==
  [][\A id \in PointerIDs, in \in PointerInputs :
       (/\ LassoUp(id, in)
        /\ \E i \in 1..Len(intersectedCounts') : intersectedCounts'[i] >= EraseThreshold)
       => /\ statePaths' = SelectSeq(ExistingStrokes,
                                     LAMBDA s : ~CentroidInBox(s, FinishedStroke(in)))
          /\ \A i \in 1..Len(statePaths') : statePaths'[i] # FinishedStroke(in)
          /\ statePointerID' = undefined
          /\ pointerID' = undefined]_vars

\* An erase with box [0,8] x [1,3] removed the zigzag (centroid (4, 16/9)), the
\* dot at (0,2) and the dot at (4,1), and kept the dots at (8,2) and (4,3), whose
\* centroids lie on the open sides of the box.
C6_Witness ==
  /\ variant = "lasso"
  /\ Len(intersectedCounts) = 5
  /\ intersectedCounts[1] >= EraseThreshold
  /\ pointerID = undefined
  /\ statePaths = <<Dot(8, 2), Dot(4, 3)>>

\* ---------------------------------------------------------------------- C7
\* C7 as stated: the crossing count of an existing stroke is the number of its
\* segments that cross at least one segment of the finished stroke.
C7_CountsExistingSegments ==
  [][\A id \in PointerIDs, in \in PointerInputs :
       LassoUp(id, in) =>
         \A i \in 1..Len(ExistingStrokes) :
           LET as == pathTolineSegments(ExistingStrokes[i])
               bs == pathTolineSegments(FinishedStroke(in))
           IN intersectedCounts'[i] =
                Cardinality({a \in 1..Len(as) :
                               \E b \in 1..Len(bs) : Intersects(as[a], bs[b])})]_vars

\* C7, amended: the crossing count of an existing stroke is the number of pairs
\* (segment of the existing stroke, segment of the finished stroke) that cross:
\* an existing segment crossed by n segments of the finished stroke counts n times.
C7_CountsCrossingPairs ==
  [][\A id \in PointerIDs, in \in PointerInputs :
       LassoUp(id, in) =>
         /\ Len(intersectedCounts') = Len(ExistingStrokes)
         /\ \A i \in 1..Len(ExistingStrokes) :
              LET as == pathTolineSegments(ExistingStrokes[i])
                  bs == pathTolineSegments(FinishedStroke(in))
              IN intersectedCounts'[i] =
                   Cardinality({ab \in (1..Len(as)) \X (1..Len(bs)) :
                                  Intersects(as[ab[1]], bs[ab[2]])})]_vars

\* A two-segment stroke crossed each of the 8 segments of the zigzag twice: the
\* count is 16.
C7_Witness ==
  /\ variant = "lasso"
  /\ Len(intersectedCounts) = 5
  /\ intersectedCounts[1] = 16

\* ---------------------------------------------------------------------- C8
Sign(n) == IF n > 0 THEN 1 ELSE IF n < 0 THEN -1 ELSE 0

\* The side of the line through p and q on which r lies: 1, -1, or 0 on the line.
Side(p, q, r) == Sign((q.x - p.x) * (r.y - p.y) - (q.y - p.y) * (r.x - p.x))

StrictlyOpposite(p, q, r1, r2) == Side(p, q, r1) * Side(p, q, r2) = -1

\* C8: over the grid, the intersection test of segments A = (a0,a1) and
\* B = (b0,b1) is true iff b0 and b1 lie strictly on opposite sides of the line
\* through A and a0 and a1 lie strictly on opposite sides of the line through
\* B; a zero-length segment, a segment with an end on the other's line and
\* collinear segments never cross.  (A is the saved stroke, B the finished one:
\* the count of the pointer-up is 1 when the test is true and 0 when not.)
C8_StrictProperCrossing ==
  (Len(intersectedCounts) = 1 /\ Len(statePaths) = 2
   /\ Len(statePaths[1]) = 2 /\ Len(statePaths[2]) = 2)
  => LET a0 == statePaths[1][1]
         a1 == statePaths[1][2]
         b0 == statePaths[2][1]
         b1 == statePaths[2][2]
         count == intersectedCounts[1]
     IN /\ count \in {0, 1}
        /\ count = 1 <=> (StrictlyOpposite(a0, a1, b0, b1) /\ StrictlyOpposite(b0, b1, a0, a1))
        /\ (a0.x = a1.x /\ a0.y = a1.y) => count = 0
        /\ (b0.x = b1.x /\ b0.y = b1.y) => count = 0
        /\ (0 \in {Side(a0, a1, b0), Side(a0, a1, b1), Side(b0, b1, a0), Side(b0, b1, a1)})
             => count = 0

\* The diagonals of the grid's unit square at the origin were compared: they cross.
C8_Witness ==
  /\ intersectedCounts = <<1>>
  /\ Len(statePaths) = 2
  /\ <<statePaths[1][1].x, statePaths[1][1].y, statePaths[1][2].x, statePaths[1][2].y>>
       = <<0, 0, 2, 2>>
  /\ Len(statePaths[2]) = 2
  /\ <<statePaths[2][1].x, statePaths[2][1].y, statePaths[2][2].x, statePaths[2][2].y>>
       = <<0, 2, 2, 0>>

\* ---------------------------------------------------------------------- C9
\* The points of prevPaths with tileSize added to coordinate c, and x, t, p, the
\* order of the points and the order of the strokes as they were.
Remapped(prevPaths, nextPaths, c) ==
  /\ Len(nextPaths) = Len(prevPaths)
  /\ \A i \in 1..Len(prevPaths) :
       /\ Len(nextPaths[i]) = Len(prevPaths[i])
       /\ \A j \in 1..Len(prevPaths[i]) :
            /\ nextPaths[i][j].x = prevPaths[i][j].x + (IF c = "x" THEN tileSize ELSE 0)
            /\ nextPaths[i][j].y = prevPaths[i][j].y + (IF c = "y" THEN tileSize ELSE 0)
            /\ nextPaths[i][j].t = prevPaths[i][j].t
            /\ nextPaths[i][j].p = prevPaths[i][j].p

\* C9: a top growth adds one tile to the height, leaves the width, advances the
\* vertical scroll position by one tile and adds tileSize to the y of every
\* point of every stroke, the in-progress one included, leaving x, t, p and
\* both orders unchanged; a left growth does the same with width, horizontal
\* scroll and x.
C9_TopLeftGrowth ==
  [][/\ growTimers'["top"] < growTimers["top"] =>
          /\ canvasHeight' = canvasHeight + tileSize
          /\ canvasWidth' = canvasWidth
          /\ scroll' = [x |-> scroll.x, y |-> scroll.y + tileSize]
          /\ Remapped(statePaths, statePaths', "y")
          /\ statePointerID' = statePointerID
     /\ growTimers'["left"] < growTimers["left"] =>
          /\ canvasWidth' = canvasWidth + tileSize
          /\ canvasHeight' = canvasHeight
          /\ scroll' = [x |-> scroll.x + tileSize, y |-> scroll.y]
          /\ Remapped(statePaths, statePaths', "x")
          /\ statePointerID' = statePointerID]_vars

\* A top growth took place while pointer 1 was drawing: the height is one tile
\* above the default, the scroll position one tile further, and the in-progress
\* stroke lies one tile lower.
C9_Witness ==
  /\ canvasHeight = DefaultCanvasHeight + tileSize
  /\ scroll.y = (3 * tileSize) \div 2 + tileSize
  /\ statePointerID = 1
  /\ Len(statePaths) > 1
  /\ \A i \in 1..Len(statePaths) : \A j \in 1..Len(statePaths[i]) :
       statePaths[i][j].y >= tileSize

\* --------------------------------------------------------------------- C10
\* C10: a bottom growth adds one tile to the height, a right growth one tile to
\* the width; each leaves the other dimension, every point of every stroke,
\* ActivePointer and the scroll position unchanged.
C10_BottomRightGrowth ==
  [][/\ growTimers'["bottom"] < growTimers["bottom"] =>
          /\ canvasHeight' = canvasHeight + tileSize
          /\ canvasWidth' = canvasWidth
          /\ scroll' = scroll
          /\ UNCHANGED drawingVars
     /\ growTimers'["right"] < growTimers["right"] =>
          /\ canvasWidth' = canvasWidth + tileSize
          /\ canvasHeight' = canvasHeight
          /\ scroll' = scroll
          /\ UNCHANGED drawingVars]_vars

\* A bottom growth took place while pointer 1 was drawing: the height is one
\* tile above the default, the scroll position and the points are where they were.
C10_Witness ==
  /\ canvasHeight = DefaultCanvasHeight + tileSize
  /\ scroll.y = (3 * tileSize) \div 2
  /\ statePointerID = 1
  /\ Len(statePaths) > 1
  /\ \A i \in 1..Len(statePaths) : \A j \in 1..Len(statePaths[i]) :
       statePaths[i][j].y < tileSize

\* ---------------------------------------------------------------- SpecStore
\* C11: in a history that starts from the default extent, canvasWidth and
\* canvasHeight are positive integer multiples of tileSize in every state, and
\* no step of a session whose clear button was not clicked (pointer events,
\* renders, growths, saves, reloads) makes either of them smaller.
C11_ExtentMultipleAndMonotone ==
  /\ [](/\ canvasWidth > 0
        /\ canvasHeight > 0
        /\ canvasWidth % tileSize = 0
        /\ canvasHeight % tileSize = 0)
  /\ [][pageKey = statePageKey =>
          /\ canvasWidth' >= canvasWidth
          /\ canvasHeight' >= canvasHeight]_vars

\* A left growth was followed by a reload without a clear: the width is one
\* tile above the default, a stored point carries the shift of the growth, and
\* the scroll position is the one of a mount, not the one after the growth.
C11_Witness ==
  /\ pageKey = 0
  /\ canvasWidth = DefaultCanvasWidth + tileSize
  /\ scroll.x = (3 * tileSize) \div 2
  /\ \E i \in 1..Len(statePaths) : \E j \in 1..Len(statePaths[i]) :
       statePaths[i][j].x >= tileSize

\* The text stored under "paths", the empty text if there is none
StoredPaths(store) == IF "paths" \in DOMAIN store THEN store["paths"] ELSE << >>

\* C16: every change of the rendered Drawing starts the save window anew; a
\* write of "paths" happens only when a window elapses, writes the Drawing the
\* window was started for and ends the window, so a burst of changes is
\* written once; and whenever no window is open in a session whose clear
\* button was not clicked, the Drawing has been unchanged for a whole window
\* and the text stored under "paths" parses to the Drawing.
C16_SaveWindowRoundTrip ==
  /\ [][paths' # paths /\ ~crashed' => saveTimer' = <<paths'>>]_vars
  /\ [][StoredPaths(storage') # StoredPaths(storage) /\ ~handleClearButtonClick =>
          /\ saveTimer # << >>
          /\ saveTimer' = << >>
          /\ storage'["paths"] = JSONstringify(saveTimer[1])]_vars
  /\ [](saveTimer = << >> /\ pageKey = statePageKey =>
          /\ ~Missing("paths")
          /\ JSONparse(storage["paths"]) = paths)

\* C17: the click on the clear button leaves none of the four keys in
\* localStorage, and the session that starts after it (the render of the new
\* key, or a reload before that render) has an empty Drawing, no ActivePointer,
\* the default extents and the time of its mount as origin.
C17_ClearEmptiesStorageAndSession ==
  /\ [][handleClearButtonClick =>
          \A key \in ClearedKeys : key \notin DOMAIN storage']_vars
  /\ [][pageKey # statePageKey =>
          /\ statePaths' = << >>
          /\ paths' = << >>
          /\ statePointerID' = undefined
          /\ pointerID' = undefined
          /\ canvasWidth' = DefaultCanvasWidth
          /\ canvasHeight' = DefaultCanvasHeight
          /\ mountedTime' = mountedTime + now
          /\ now' = 0]_vars

\* The session after a clear of a session that had received pointer events and
\* had a growth pending: the new key is rendered, the origin is later than the
\* first one, the Drawing is empty and not stored yet, the width is the default.
C17_Witness ==
  /\ statePageKey = 1
  /\ pageKey = 1
  /\ mountedTime > 0
  /\ staleTimers["left"] = 1
  /\ statePaths = << >>
  /\ Missing("paths")
  /\ canvasWidth = DefaultCanvasWidth

\* ----------------------------------------------------------------- SpecGrow
\* C12: growth is debounced per edge: intersecting signals of one edge that
\* arrive within the 500 ms of a pending growth of that edge coalesce, so an
\* edge never has more than one growth pending and a burst grows one tile.
C12_OneGrowthPerBurst == \A edge \in Edges : growTimers[edge] <= 1

\* C13: growths of different edges commute: from every reachable extent,
\* scroll position and drawing, growing edge a then edge b gives the same
\* extent, point coordinates and scroll position as growing b then a; and
\* every timeout step of an edge is that growth.
C13_GrowthsCommute ==
  /\ [](\A a \in Edges : \A b \in Edges \ {a} :
          Grow(b, Grow(a, Extent)) = Grow(a, Grow(b, Extent)))
  /\ [][\A edge \in Edges :
          growTimers'[edge] < growTimers[edge] => Extent' = Grow(edge, Extent)]_vars

\* Both a top and a left growth acted on a stored drawing.
C13_Witness ==
  /\ canvasWidth = DefaultCanvasWidth + tileSize
  /\ canvasHeight = DefaultCanvasHeight + tileSize
  /\ scroll = [x |-> (5 * tileSize) \div 2, y |-> (5 * tileSize) \div 2]
  /\ statePaths # << >>

\* ----------------------------------------------------------------- SpecHold
\* C14: when the timer of a press on a hit-region fires, the stroke that was
\* pressed (the same stroke even if strokes before it were removed since the
\* press) is no longer in the Drawing and ActivePointer is cleared.
C14_TimerRemovesPressedStroke ==
  [][\A tm \in holdTimers :
       PathTimeout(tm) =>
         /\ \A i \in 1..Len(statePaths') : statePaths'[i] # tm.path
         /\ statePointerID' = undefined]_vars

\* C15: a press on a hit-region is called off by a pointer-up or pointer-cancel
\* on that hit-region and by a move of the pressing pointer outside it (a move
\* the hit-region handles and finds outside, or a move dispatched to the svg):
\* after such an event no timer started by a pointer-down on that hit-region,
\* respectively by that pointer, is pending, so none of them removes a stroke.
C15_CallingOffCancelsTimers ==
  [][/\ \A id \in PointerIDs, in \in PointerInputs, k \in Targets \ {0} :
          (PointerUp(id, in, k) \/ PointerCancel(id, k) \/ PointerMove(id, in, k, FALSE))
            => \A tm \in holdTimers' : tm.index # k - 1
     /\ \A id \in PointerIDs, in \in PointerInputs :
          PointerMove(id, in, 0, FALSE) => \A tm \in holdTimers' : tm.by # id]_vars

\* ---------------------------------------------------------------- SpecShare
\* The points of a sequence of strokes, as a set
PointSet(ps) == UNION {{ps[i][j] : j \in 1..Len(ps[i])} : i \in 1..Len(ps)}

\* The least and the greatest element of a non-empty set of numbers
Least(S) == CHOOSE v \in S : \A w \in S : v <= w
Greatest(S) == CHOOSE v \in S : \A w \in S : v >= w

\* C18: when the exported strokes have at least one point, with x in
\* [xmin, xmax] and y in [ymin, ymax], the canvas is given the width
\* (xmax - xmin + 2 * padding) * zoom and the height
\* (ymax - ymin + 2 * padding) * zoom, every point (x, y) stroked is at
\* ((x - xmin + padding) * zoom, (y - ymin + padding) * zoom), and every
\* exported stroke is stroked, unless no context was obtained.
C18_BitmapSize ==
  LET kept == ExportedPaths(share.paths)
      xs == {pt.x : pt \in PointSet(kept)}
      ys == {pt.y : pt \in PointSet(kept)}
      At(pt) == [x |-> (pt.x - Least(xs) + padding) * canvasZoom,
                 y |-> (pt.y - Least(ys) + padding) * canvasZoom]
  IN  share.pc # "idle" /\ PointSet(kept) # {} =>
        /\ share.width = (Greatest(xs) - Least(xs) + 2 * padding) * canvasZoom
        /\ share.height = (Greatest(ys) - Least(ys) + 2 * padding) * canvasZoom
        /\ \A i \in 1..Len(share.strokes) : \A j \in 1..Len(share.strokes[i]) :
             share.strokes[i][j] = At(share.paths[i][j])
        /\ share.error # "context" =>
             \A k \in 1..Len(kept) : \E i \in 1..Len(share.strokes) :
               share.strokes[i] = [j \in 1..Len(kept[k]) |-> At(kept[k][j])]

\* The drawing with x in [10, 50] and y in [20, 80] was exported by the lasso
\* variant (padding 8, zoom 8) and downloaded: 56 * 8 by 76 * 8.
C18_Witness ==
  /\ variant = "lasso"
  /\ share.pc = "done"
  /\ share.delivery = <<"download">>
  /\ share.width = 56 * 8
  /\ share.height = 76 * 8
  /\ Len(share.strokes) = 1

\* C19: in the lasso variant, the one with the noise filter, the strokes
\* stroked onto the bitmap are exactly the strokes the filter keeps, in their
\* order: a stroke shorter than the threshold is not stroked.
C19_PaintsFilteredStrokesOnly ==
  LET kept == ExportedPaths(share.paths)
  IN  variant = "lasso" /\ share.pc \in {"encoding", "sharing", "done"} =>
        share.strokes =
          [k \in 1..Len(kept) |-> BitmapStroke(kept[k], BoundingBox(Flat(kept)))]

\* C20: an export that throws (no context, no blob) has attempted no delivery;
\* an export that ends without an error has attempted exactly one delivery,
\* the share if canShare accepted the file and the download otherwise; a
\* rejected share ends the export with the share as the only attempt; and no
\* step of an export changes the Drawing, the extents, ActivePointer or
\* localStorage.
C20_ExportOutcomes ==
  /\ [](/\ share.pc = "failed" <=> share.error \in {"context", "blob"}
        /\ share.pc = "failed" => share.delivery = << >>
        /\ share.pc = "done" => share.delivery \in {<<"share">>, <<"download">>}
        /\ share.pc = "sharing" \/ share.rejected => share.delivery = <<"share">>)
  /\ [][\A blob \in BOOLEAN, canShare \in BOOLEAN :
          ToBlobResolved(blob, canShare) /\ share'.pc # "failed" =>
            share'.delivery = <<IF canShare THEN "share" ELSE "download">>]_vars
  /\ [][share' # share =>
          UNCHANGED <<statePaths, paths, statePointerID, pointerID, canvasWidth,
                      canvasHeight, storage>>]_vars

\* A share was rejected while pointer 1 was drawing: the export is over and the
\* share is its only delivery.
C20_Witness ==
  /\ share.pc = "done"
  /\ share.rejected
  /\ share.delivery = <<"share">>
  /\ statePointerID = 1

\* ------------------------------------------------------- state invariants
\* C24: a stroke of the Drawing with fewer than two points is the last stroke
\* and a pointer is active; so with no active pointer every stroke has at least
\* two points, also after saves and reloads.
C24_OnePointStrokeOnlyInProgress ==
  \A i \in 1..Len(statePaths) :
    Len(statePaths[i]) < 2 => i = Len(statePaths) /\ statePointerID # undefined

\* C25: whenever a handler sees an active pointer, the Drawing its updater
\* receives is not empty: the append of handlePointerMove has a last stroke.
C25_ActivePointerHasLastStroke == pointerID # undefined => statePaths # << >>

\* ------------------------------------------------ hold erase: frame effect
\* a is b with some elements left out
RECURSIVE IsSubsequence(_, _)
IsSubsequence(a, b) ==
  IF a = << >> THEN TRUE
  ELSE IF b = << >> THEN FALSE
  ELSE IF Head(a) = Head(b) THEN IsSubsequence(Tail(a), Tail(b))
  ELSE IsSubsequence(a, Tail(b))

\* The committed strokes a firing of tm has to keep: all strokes but the pressed
\* one and, while a pointer is active, the in-progress (last) one
KeptByTimeout(tm) ==
  SelectSeq(IF statePointerID # undefined THEN Slice(statePaths, 0, -1) ELSE statePaths,
            LAMBDA s : s # tm.path)

\* C26: a hold timer firing removes only the pressed stroke and, if a pointer
\* is active, the in-progress stroke: every other stroke, also one completed by
\* pointer-up after the press, stays in the Drawing in the same relative order.
C26_TimerKeepsOtherStrokes ==
  [][\A tm \in holdTimers :
       PathTimeout(tm) => IsSubsequence(KeptByTimeout(tm), statePaths')]_vars

\* --------------------------------------------- clear: callbacks of the old Page
\* C28: callbacks the Page before a clear scheduled do not reach the new
\* session: a pending save is always the save of the Drawing the mounted Page
\* rendered, so a save after the clear never writes the old Drawing, and an
\* edge-growth timeout of the unmounted Page changes neither the extents, nor
\* the Drawing, nor the scroll position.
C28_OldCallbacksDoNotLeak ==
  /\ [](pageKey = statePageKey /\ saveTimer # << >> => saveTimer[1] = paths)
  /\ [][\A edge \in Edges :
          StaleTimeout(edge) =>
            UNCHANGED <<canvasWidth, canvasHeight, statePaths, scroll>>]_vars

\* The save half of C28 alone
C28_SaveHalf == pageKey = statePageKey /\ saveTimer # << >> => saveTimer[1] = paths

\* ------------------------------------------------- the points of a stroke
\* The last stroke of a Drawing
LastStroke(ps) == ps[Len(ps)]

\* The event of pointer id is one of the active pointer, for the handler and
\* for the state its updates act on.
OfActivePointer(id) == pointerID = id /\ statePointerID = id

\* C22: the stroke a pointer-up commits is the pointer-down point, then every
\* point an accepted pointer-move appended, in order, then the pointer-up point:
\* the pointer-down of an idle canvas starts the last stroke with its point, an
\* accepted pointer-move appends its point to the last stroke, and a pointer-up
\* of the active pointer that erases nothing leaves as last stroke the stroke
\* so far with the pointer-up point appended, also directly after a move.
C22_CommitKeepsAcceptedPoints ==
  [][\A id \in PointerIDs, in \in PointerInputs, k \in Targets :
       /\ (PointerDown(id, in, k) /\ pointerID = undefined /\ statePointerID = undefined)
            => LastStroke(statePaths') = <<EventPoint(in)>>
       /\ \A inside \in BOOLEAN :
            (PointerMove(id, in, k, inside) /\ OfActivePointer(id) /\ ~crashed')
              => LastStroke(statePaths') = Append(LastStroke(statePaths), EventPoint(in))
       /\ (/\ PointerUp(id, in, k)
           /\ OfActivePointer(id)
           /\ ~crashed'
           /\ \A i \in 1..Len(intersectedCounts') : intersectedCounts'[i] < EraseThreshold)
            => /\ statePaths' # << >>
               /\ LastStroke(statePaths') = Append(LastStroke(statePaths), EventPoint(in))]_vars

\* --------------------------------------------- lasso: growth and the pointer
\* C27: in the lasso variant a top/left growth shift is neither lost nor
\* applied twice. The timeout of the top (left) observer shifts every point of
\* the Drawing by tileSize in y (x) while the extent grows and the scroll
\* position advances by tileSize; and a pointer-move or pointer-up of the
\* active pointer, a growth still unrendered or not, leaves every point where
\* the growths put it: each point of the Drawing after the event is a point of
\* the Drawing before it or the point of the event.
C27_GrowthShiftSurvives ==
  [][variant = "lasso" =>
       /\ growTimers'["top"] < growTimers["top"] =>
            /\ statePaths' = ShiftPaths(statePaths, "y")
            /\ canvasHeight' = canvasHeight + tileSize
            /\ scroll' = [scroll EXCEPT !.y = @ + tileSize]
       /\ growTimers'["left"] < growTimers["left"] =>
            /\ statePaths' = ShiftPaths(statePaths, "x")
            /\ canvasWidth' = canvasWidth + tileSize
            /\ scroll' = [scroll EXCEPT !.x = @ + tileSize]
       /\ \A id \in PointerIDs, in \in PointerInputs :
            (/\ OfActivePointer(id)
             /\ PointerMove(id, in, 0, FALSE) \/ PointerUp(id, in, 0))
              => PointSet(statePaths') \subseteq PointSet(statePaths) \cup {EventPoint(in)}]_vars

\* ------------------------------------------------- momentum scroll: SpecScroll
\* The decay factor r of a tick: 64/65 (lasso), 64/67 (hold)
DecayRatio == IF variant = "lasso" THEN Rat(64, 65) ELSE Rat(64, 67)

\* v * r^n
RECURSIVE AfterTicks(_, _)
AfterTicks(v, n) == IF n = 0 THEN v ELSE AfterTicks(RatMul(v, DecayRatio), n - 1)

AtMostOne(v) == ~RatLess(Rat(1, 1), RatAbs(v))
BelowOne(v) == RatLess(RatAbs(v), Rat(1, 1))

\* ceil(log(1 / v0) / log(r)) for v0 >= 1 is the least n >= 0 with
\* v0 * r^n <= 1. n is that number; n is greater than that number.
ReachedCeilLog(v0, n) ==
  /\ AtMostOne(AfterTicks(v0, n))
  /\ \A m \in 0..(n - 1) : ~AtMostOne(AfterTicks(v0, m))
PassedCeilLog(v0, n) == \E m \in 0..(n - 1) : AtMostOne(AfterTicks(v0, m))

\* Each tick multiplies the velocity by r: the sign stays and a velocity other
\* than 0 shrinks in magnitude.
TickDecays ==
  ScrollTick =>
    /\ momentum'.velocityX = RatMul(momentum.velocityX, DecayRatio)
    /\ Sign(momentum'.velocityX.n) = Sign(momentum.velocityX.n)
    /\ momentum.velocityX.n # 0
         => RatLess(RatAbs(momentum'.velocityX), RatAbs(momentum.velocityX))

\* The velocity the last pointer-move left was at least 1.
Decaying == ~RatLess(momentum.v0, Rat(1, 1))

\* C21 as amended: with no further pointer-move, each tick multiplies the
\* velocity by the fixed factor r < 1, so it keeps its sign and its magnitude
\* strictly decreases; starting from v0 >= 1 it is at most 1 after
\* ceil(log(1/v0)/log(r)) ticks and below 1 after every later tick.
C21_DecayAtMostOneThenBelow ==
  /\ [][TickDecays]_vars
  /\ [](Decaying =>
          /\ ReachedCeilLog(momentum.v0, momentum.idle) => AtMostOne(momentum.velocityX)
          /\ PassedCeilLog(momentum.v0, momentum.idle) => BelowOne(momentum.velocityX))

\* The velocity 65/64 a lasso pointer-move left is exactly 1 after
\* ceil(log(64/65)/log(64/65)) = 1 tick.
C21_Witness ==
  /\ variant = "lasso"
  /\ momentum.v0 = Rat(65, 64)
  /\ momentum.idle = 1
  /\ ReachedCeilLog(momentum.v0, 1)
  /\ momentum.velocityX = Rat(1, 1)

\* C21 as stated: each tick multiplies the velocity by r, and starting from v0
\* the velocity is below 1 after ceil(log(1/v0)/log(r)) ticks.
C21_DecayBelowOne ==
  /\ [][TickDecays]_vars
  /\ [](/\ Decaying
        /\ ReachedCeilLog(momentum.v0, momentum.idle)
             \/ PassedCeilLog(momentum.v0, momentum.idle)
        => BelowOne(momentum.velocityX))

\* C23: each tick adds the velocity to the carried remainder, scrolls by the
\* floor of the sum and keeps the difference: the remainder is in [0, 1) after
\* every tick, and the distance the ticks scrolled plus the remainder is the sum
\* of the velocities the ticks applied.
C23_RemainderCarriesFraction ==
  /\ [][ScrollTick =>
          LET sum == RatAdd(momentum.velocityDecimalX, momentum.velocityX)
              scrolledBy == scroll'.x - scroll.x
          IN /\ momentum'.velocityDecimalX = RatAdd(sum, Rat(-scrolledBy, 1))
             /\ momentum'.scrolled = momentum.scrolled + scrolledBy
             /\ ~RatLess(sum, Rat(scrolledBy, 1))
             /\ RatLess(sum, Rat(scrolledBy + 1, 1))]_vars
  /\ [](/\ momentum.velocityDecimalX.n >= 0
        /\ momentum.velocityDecimalX.n < momentum.velocityDecimalX.d
        /\ RatAdd(Rat(momentum.scrolled, 1), momentum.velocityDecimalX) = momentum.applied)

\* Two ticks with a pointer-move between them scrolled by 2 and carry a
\* remainder.
C23_Witness ==
  /\ momentum.ticks = 2
  /\ momentum.idle = 1
  /\ momentum.scrolled = 2
  /\ momentum.velocityDecimalX.n # 0

====
